---- MODULE Spec2Model ----
(***************************************************************************)
(* Model of the gif.land Discord interaction worker (src/src/index.ts).    *)
(*                                                                         *)
(* The worker is a stateless request handler.  The state of the model is   *)
(* what can be observed about the request in hand: the request, the        *)
(* handler's trace (what it did and what the outside world answered: the   *)
(* crypto library, the catalog service, the random source), the response   *)
(* returned to the caller, and the follow-up call handed to waitUntil.     *)
(*                                                                         *)
(* JavaScript strings are sequences of one-character strings, so that      *)
(* slice, split, trim, toLowerCase and includes are computed as the code   *)
(* computes them.  Texts that are only ever built from a template and      *)
(* never taken apart again are records [template |-> ..., ...].            *)
(***************************************************************************)
EXTENDS Integers, Sequences, FiniteSets, TLC

VARIABLES env, request, trace, response, followup

vars == <<env, request, trace, response, followup>>

-----------------------------------------------------------------------------
(* Bounds of the model *)

\* Math.random() returns k / RandDenom for some k in 0 .. RandDenom-1
RandDenom == 3

\* size of the largest numbered catalog the catalog service answers with
MaxCatalog == 12

-----------------------------------------------------------------------------
(* Program constants *)

MAX_GIFS_SHOWN == 10

EPHEMERAL == 64

PING == 1
APPLICATION_COMMAND == 2
MESSAGE_COMPONENT == 3

PONG == 1
CHANNEL_MESSAGE_WITH_SOURCE == 4
UPDATE_MESSAGE == 7

\* `...`.slice(0, 80) of a button label, `...`.slice(0, 100) of a custom_id
LabelLimit == 80
CustomIdLimit == 100

\* payload.split("||", 2)
SplitLimit == 2

\* Ed25519: a raw public key is 32 bytes, a signature is 64 bytes
Ed25519KeyBytes == 32
Ed25519SigBytes == 64

-----------------------------------------------------------------------------
(* JavaScript strings *)

Min(a, b) == IF a < b THEN a ELSE b

Rep(c, n) == [i \in 1..n |-> c]

\* s.slice(from) and s.slice(0, to), 0-based as in JavaScript
SliceFrom(s, from) == SubSeq(s, Min(from, Len(s)) + 1, Len(s))
SliceTo(s, to) == SubSeq(s, 1, Min(to, Len(s)))

\* s.startsWith(p)
StartsWith(s, p) == Len(s) >= Len(p) /\ SubSeq(s, 1, Len(p)) = p

\* s.indexOf(sub), 1-based, 0 when sub does not occur
IndexOf(s, sub) ==
  LET hits == {i \in 1..(Len(s) - Len(sub) + 1) : SubSeq(s, i, i + Len(sub) - 1) = sub}
  IN  IF hits = {} THEN 0 ELSE CHOOSE i \in hits : \A k \in hits : i <= k

\* s.includes(sub)
Includes(s, sub) == Len(sub) = 0 \/ IndexOf(s, sub) > 0

WhiteSpace == {" ", "\t", "\n"}

\* s.trim()
RECURSIVE TrimStart(_)
TrimStart(s) ==
  IF Len(s) > 0 /\ Head(s) \in WhiteSpace THEN TrimStart(Tail(s)) ELSE s

RECURSIVE TrimEnd(_)
TrimEnd(s) ==
  IF Len(s) > 0 /\ s[Len(s)] \in WhiteSpace THEN TrimEnd(SubSeq(s, 1, Len(s) - 1)) ELSE s

Trim(s) == TrimEnd(TrimStart(s))

UpperCase == <<"A","B","C","D","E","F","G","H","I","J","K","L","M",
               "N","O","P","Q","R","S","T","U","V","W","X","Y","Z">>
LowerCase == <<"a","b","c","d","e","f","g","h","i","j","k","l","m",
               "n","o","p","q","r","s","t","u","v","w","x","y","z">>

LowerOf ==
  [c \in {UpperCase[i] : i \in 1..Len(UpperCase)} |->
     LowerCase[CHOOSE i \in 1..Len(UpperCase) : UpperCase[i] = c]]

LowerChar(c) == IF c \in DOMAIN LowerOf THEN LowerOf[c] ELSE c

\* s.toLowerCase()
ToLowerCase(s) == [i \in 1..Len(s) |-> LowerChar(s[i])]

\* s.split(sep) for a non-empty separator
RECURSIVE SplitAll(_, _)
SplitAll(s, sep) ==
  LET i == IndexOf(s, sep)
  IN  IF i = 0 THEN <<s>>
      ELSE <<SubSeq(s, 1, i - 1)>> \o SplitAll(SubSeq(s, i + Len(sep), Len(s)), sep)

\* s.split(sep, limit): the pieces of the whole string, cut to the first limit
Split(s, sep, limit) ==
  LET all == SplitAll(s, sep) IN SubSeq(all, 1, Min(limit, Len(all)))

\* the decimal digits of a small number, as `${n}` writes them
Digits == <<"0","1","2","3","4","5","6","7","8","9">>
Dec(n) ==
  IF n < 10 THEN <<Digits[n + 1]>> ELSE <<Digits[(n \div 10) + 1], Digits[(n % 10) + 1]>>

-----------------------------------------------------------------------------
(* Responses *)

\* new Response(text, { status })
TextResponse(text, status) ==
  [outcome |-> "response", status |-> status, contentType |-> "text/plain",
   body |-> [text |-> text]]

\* jsonResponse(body, status = 200)
jsonResponse(body, status) ==
  [outcome |-> "response", status |-> status, contentType |-> "application/json",
   body |-> body]

\* an exception that leaves the handler: the caller gets no Response from it
Exception(name) ==
  [outcome |-> "exception", status |-> 0, contentType |-> "none",
   body |-> [error |-> name]]

NoResponse ==
  [outcome |-> "none", status |-> 0, contentType |-> "none", body |-> [none |-> TRUE]]

-----------------------------------------------------------------------------
(* Ed25519 signature verification *)

HexDigits == <<"0","1","2","3","4","5","6","7","8","9","a","b","c","d","e","f">>

\* the value of each hex digit, in either case
HexValueOf ==
  [c \in {HexDigits[i] : i \in 1..Len(HexDigits)} \cup {"A", "B", "C", "D", "E", "F"} |->
     (CHOOSE i \in 1..Len(HexDigits) : HexDigits[i] = LowerChar(c)) - 1]

IsHexDigit(c) == c \in DOMAIN HexValueOf

HexValue(c) == HexValueOf[c]

\* parseInt(s, 16) of the one or two characters hex.substring(i, i + 2): the
\* value of the longest prefix of hex digits, NaN when there is none.
\* (The model's hex alphabet has no white space and no sign.)
ParseInt16(s) ==
  IF Len(s) = 0 \/ ~IsHexDigit(s[1]) THEN [nan |-> TRUE, value |-> 0]
  ELSE IF Len(s) = 1 \/ ~IsHexDigit(s[2]) THEN [nan |-> FALSE, value |-> HexValue(s[1])]
  ELSE [nan |-> FALSE, value |-> 16 * HexValue(s[1]) + HexValue(s[2])]

\* storing a number in a Uint8Array element: NaN is stored as 0
ToUint8(n) == IF n.nan THEN 0 ELSE n.value % 256

\* new Uint8Array(hex.length / 2) has floor(hex.length / 2) elements; the loop
\* stores element i / 2 for i = 0, 2, 4, ... < hex.length, and a store past the
\* end of the array (the odd tail character) is ignored.
hexToUint8Array(hex) ==
  [k \in 1..(Len(hex) \div 2) |-> ToUint8(ParseInt16(SubSeq(hex, 2 * k - 1, 2 * k)))]

\* The key pair of the platform: the public key it publishes, and the
\* signature it puts on the timestamp and body of a request it sends.
SignerKeyHex == Rep("a", 2 * Ed25519KeyBytes)
SignerKeyBytes == hexToUint8Array(SignerKeyHex)
GenuineSigHex == [i \in 1..(2 * Ed25519SigBytes) |-> IF i % 2 = 1 THEN "0" ELSE "a"]
GenuineSigBytes == hexToUint8Array(GenuineSigHex)

\* crypto.subtle.importKey("raw", bytes, Ed25519): a raw key that is not 32
\* bytes long is refused with a DataError
importKeyThrows(keyBytes) == Len(keyBytes) # Ed25519KeyBytes

\* new TextEncoder().encode(timestamp + body): the signed message.  The body is
\* kept as the JSON text's abstract value, so the message is the pair.
Message(timestamp, body) == [timestamp |-> timestamp, body |-> body]

\* crypto.subtle.verify("Ed25519", key, sigBytes, message).  crypto.signed is
\* the message the platform signed with GenuineSigBytes.  A signature of the
\* wrong length is no signature: the runtime answers false or, when
\* crypto.strict, rejects with an OperationError.
subtleVerify(keyBytes, sigBytes, message, crypto) ==
  IF Len(sigBytes) # Ed25519SigBytes
  THEN IF crypto.strict THEN "throw" ELSE "false"
  ELSE IF keyBytes = SignerKeyBytes /\ sigBytes = GenuineSigBytes
          /\ message = crypto.signed
       THEN "true" ELSE "false"

\* no try/catch: what importKey or verify throws leaves the function
verifyDiscordSignature(publicKey, signature, timestamp, body, crypto) ==
  LET keyBytes == hexToUint8Array(publicKey)
  IN  IF importKeyThrows(keyBytes) THEN "throw"
      ELSE subtleVerify(keyBytes, hexToUint8Array(signature),
                        Message(timestamp, body), crypto)

-----------------------------------------------------------------------------
(* Catalog and random source *)

SITE_URL == "https://gif.land"

\* Gif, without the fields no code reads (id, width, height)
Gif(url, tags) == [url |-> url, tags |-> tags]

\* The c-th call (c = 0, 1, ...) of Math.random() in a request whose random
\* stream is seed returns Rnd(seed, c) / RandDenom.
Rnd(seed, c) == (seed + c) % RandDenom

\* Math.floor(Math.random() * n) at call c
RandomIndex(seed, c, n) == (Rnd(seed, c) * n) \div RandDenom

Swap(a, i, j) == [a EXCEPT ![i] = a[j], ![j] = a[i]]

\* the loop of shuffled: for (i = a.length - 1; i > 0; i--), i 0-based, the
\* call counter c going up by one each round
RECURSIVE ShuffleLoop(_, _, _, _)
ShuffleLoop(a, i, seed, c) ==
  IF i > 0
  THEN ShuffleLoop(Swap(a, i + 1, RandomIndex(seed, c, i + 1) + 1), i - 1, seed, c + 1)
  ELSE a

shuffled(arr, seed) == ShuffleLoop(arr, Len(arr) - 1, seed, 0)

\* fetchGifs without the res.ok check: an error status is read as a catalog
fetchGifs_ignoresStatus(reply) ==
  IF reply.kind \in {"ok", "status"} THEN [threw |-> FALSE, gifs |-> reply.gifs]
  ELSE [threw |-> TRUE, gifs |-> <<>>]

\* const res = await fetch(`${SITE_URL}/api`); if (!res.ok) throw ...; return res.json()
\* reply: what the catalog service did with the one GET
fetchGifs(reply) ==
  IF reply.kind = "ok" THEN [threw |-> FALSE, gifs |-> reply.gifs]
  ELSE [threw |-> TRUE, gifs |-> <<>>]

-----------------------------------------------------------------------------
(* Message builders *)

\* `${gif.url}${gif.tags ? ` | ${gif.tags}` : ""}`
Title(gif) ==
  gif.url \o (IF gif.tags # <<>> THEN <<" ", "|", " ">> \o gif.tags ELSE <<>>)

\* { title, image: { url: `${SITE_URL}/${gif.url}` } }
Embed(gif) ==
  [title |-> Title(gif), image |-> [url |-> [base |-> SITE_URL, path |-> gif.url]]]

PostLabel == <<"P", "o", "s", "t", ":", " ">>
PostPrefix == <<"p", "o", "s", "t", ":">>
Delimiter == <<"|", "|">>

\* `post:${gif.url}||${gif.tags || ""}`.slice(0, 100)
EncodeCustomId(gif) ==
  SliceTo(PostPrefix \o gif.url \o Delimiter \o gif.tags, CustomIdLimit)

Button(gif) ==
  [type |-> 2, style |-> 1,
   label |-> SliceTo(PostLabel \o gif.url, LabelLimit),
   custom_id |-> EncodeCustomId(gif)]

\* for (i = 0; i < gifs.length; i += 2) rows.push(gifs.slice(i, i + 2).map(button))
ActionRows(gifs) ==
  [r \in 1..((Len(gifs) + 1) \div 2) |->
     [type |-> 1,
      components |-> [k \in 1..Min(2, Len(gifs) - 2 * (r - 1)) |->
                        Button(gifs[2 * (r - 1) + k])]]]

HeaderText(gifs, query) ==
  IF Len(gifs) = MAX_GIFS_SHOWN
  THEN [template |-> "Showing ${n} GIFs for **${query}** - try a more specific search to narrow results.",
        n |-> MAX_GIFS_SHOWN, noun |-> "GIFs", query |-> query]
  ELSE [template |-> "Found ${n} ${noun} for **${query}**",
        n |-> Len(gifs), noun |-> IF Len(gifs) = 1 THEN "GIF" ELSE "GIFs",
        query |-> query]

buildGifPicker(gifs, query) ==
  [content |-> HeaderText(gifs, query),
   embeds |-> [i \in 1..Len(gifs) |-> Embed(gifs[i])],
   components |-> ActionRows(gifs),
   flags |-> EPHEMERAL]

buildSingleGifMessage(gif) == [embeds |-> <<Embed(gif)>>]

-----------------------------------------------------------------------------
(* What handling one request did *)

NotAsked == [kind |-> "notasked", status |-> 0, gifs |-> <<>>]

NoFollowup ==
  [state |-> "none", appId |-> "none", token |-> "none", body |-> [embeds |-> <<>>]]

\* nothing parsed, nobody dispatched, no outbound call, nothing selected
NoWork ==
  [response |-> NoResponse, verify |-> "skipped", parsed |-> FALSE, dispatched |-> {},
   catalogFetches |-> 0, catalogReply |-> NotAsked, query |-> <<>>,
   matches |-> <<>>, shown |-> <<>>, randomCalls |-> 0, followup |-> NoFollowup]

-----------------------------------------------------------------------------
(* Interaction handlers *)

handlePing == [NoWork EXCEPT !.response = jsonResponse([type |-> PONG], 200)]

\* interaction.data?.options ?? []
OptionsOf(interaction) ==
  IF interaction.hasData /\ interaction.hasOptions THEN interaction.options ELSE <<>>

\* options.find((o) => o.name === "search"): the first such option
HasSearchOption(options) == \E i \in 1..Len(options) : options[i].name = "search"
SearchOption(options) ==
  options[CHOOSE i \in 1..Len(options) :
            /\ options[i].name = "search"
            /\ \A k \in 1..(i - 1) : options[k].name # "search"]

\* Matches looking at the path only
Matches_pathOnly(g, lowerQuery) == Includes(ToLowerCase(g.url), lowerQuery)

\* g.tags?.toLowerCase().includes(lowerQuery) || g.url.toLowerCase().includes(lowerQuery)
Matches(g, lowerQuery) ==
  \/ Includes(ToLowerCase(g.tags), lowerQuery)
  \/ Includes(ToLowerCase(g.url), lowerQuery)

\* allGifs.filter(pred): the matching items, in catalog order
Filter(allGifs, lowerQuery) ==
  LET F[i \in 0..Len(allGifs)] ==
        IF i = 0 THEN <<>>
        ELSE IF Matches(allGifs[i], lowerQuery) THEN Append(F[i - 1], allGifs[i])
        ELSE F[i - 1]
  IN  F[Len(allGifs)]

CatalogError ==
  jsonResponse(
    [type |-> CHANNEL_MESSAGE_WITH_SOURCE,
     data |-> [content |-> "Could not reach gif.land right now. Try again in a moment.",
               flags |-> EPHEMERAL]], 200)

NoGifsFound(query) ==
  jsonResponse(
    [type |-> CHANNEL_MESSAGE_WITH_SOURCE,
     data |-> [content |-> [template |-> "No GIFs found for \"${query}\". Try a different search.",
                            query |-> query],
               flags |-> EPHEMERAL]], 200)

\* the no-search-term branch: allGifs[Math.floor(Math.random() * allGifs.length)];
\* on an empty catalog the element is undefined and buildSingleGifMessage
\* throws a TypeError reading gif.url
RandomPick(base, allGifs, seed) ==
  LET index == RandomIndex(seed, 0, Len(allGifs))
  IN  IF index + 1 > Len(allGifs)
      THEN [base EXCEPT !.randomCalls = 1, !.response = Exception("TypeError")]
      ELSE [base EXCEPT !.randomCalls = 1,
                        !.shown = <<allGifs[index + 1]>>,
                        !.response =
                          jsonResponse([type |-> CHANNEL_MESSAGE_WITH_SOURCE,
                                        data |-> buildSingleGifMessage(allGifs[index + 1])],
                                       200)]

\* Shown without the cap
Shown_uncapped(matches, seed) == shuffled(matches, seed)

\* shuffled(matches).slice(0, MAX_GIFS_SHOWN)
Shown(matches, seed) == SliceTo(shuffled(matches, seed), MAX_GIFS_SHOWN)

\* the search branch
Search(base, allGifs, query, seed) ==
  LET matches == Filter(allGifs, ToLowerCase(query))
      shown == Shown(matches, seed)
  IN  IF Len(matches) = 0
      THEN [base EXCEPT !.response = NoGifsFound(query)]
      ELSE [base EXCEPT !.matches = matches,
                        !.shown = shown,
                        !.randomCalls = Len(matches) - 1,
                        !.response =
                          jsonResponse([type |-> CHANNEL_MESSAGE_WITH_SOURCE,
                                        data |-> buildGifPicker(shown, query)], 200)]

\* world.catalog: what the catalog service does with the GET; world.seed: the
\* random stream.  A search value that is no string has no trim(): TypeError.
handleSlashCommand(interaction, world) ==
  LET options == OptionsOf(interaction)
      found == HasSearchOption(options)
      value == SearchOption(options).value
  IN  IF found /\ value.kind = "number"
      THEN [NoWork EXCEPT !.response = Exception("TypeError")]
      ELSE
        LET query == Trim(IF found /\ value.kind = "string" THEN value.str ELSE <<>>)
            got == fetchGifs(world.catalog)
            base == [NoWork EXCEPT !.catalogFetches = 1,
                                   !.catalogReply = world.catalog,
                                   !.query = query]
        IN  IF got.threw THEN [base EXCEPT !.response = CatalogError]
            ELSE IF query = <<>> THEN RandomPick(base, got.gifs, world.seed)
            ELSE Search(base, got.gifs, query, world.seed)

\* const payload = customId.slice("post:".length);
\* const [gifFilename, tags = ""] = payload.split("||", 2);
DecodeCustomId(customId) ==
  LET parts == Split(SliceFrom(customId, Len(PostPrefix)), Delimiter, SplitLimit)
  IN  Gif(parts[1], IF Len(parts) >= 2 THEN parts[2] ELSE <<>>)

UnknownAction ==
  jsonResponse([type |-> UPDATE_MESSAGE,
                data |-> [content |-> "Unknown action.", components |-> <<>>,
                          embeds |-> <<>>]], 200)

Confirmation(gifFilename) ==
  jsonResponse([type |-> UPDATE_MESSAGE,
                data |-> [content |-> [template |-> "Posted **${gifFilename}**",
                                       gifFilename |-> gifFilename],
                          components |-> <<>>, embeds |-> <<>>]], 200)

\* ctx.waitUntil(fetch(webhook url, { method: "POST", body })): started, not awaited
ScheduleFollowup(appId, token, gif) ==
  [state |-> "pending", appId |-> appId, token |-> token,
   body |-> buildSingleGifMessage(gif)]

\* interaction.data?.custom_id ?? ""
CustomIdOf(interaction) ==
  IF interaction.hasData /\ interaction.custom_id.present
  THEN interaction.custom_id.value ELSE <<>>

\* handleButtonClick without the ctx.waitUntil(fetch(...)) call
handleButtonClick_unscheduled(interaction, environment) ==
  LET customId == CustomIdOf(interaction)
      gif == DecodeCustomId(customId)
  IN  IF ~StartsWith(customId, PostPrefix)
      THEN [NoWork EXCEPT !.response = UnknownAction]
      ELSE [NoWork EXCEPT !.response = Confirmation(gif.url)]

handleButtonClick(interaction, environment) ==
  LET customId == CustomIdOf(interaction)
      gif == DecodeCustomId(customId)
  IN  IF ~StartsWith(customId, PostPrefix)
      THEN [NoWork EXCEPT !.response = UnknownAction]
      ELSE [NoWork EXCEPT
              !.response = Confirmation(gif.url),
              !.followup = ScheduleFollowup(environment.DISCORD_APP_ID,
                                            interaction.token, gif)]

-----------------------------------------------------------------------------
(* Main handler *)

\* request.headers.get(name) ?? ""
HeaderOrEmpty(header) == IF header.present THEN header.value ELSE <<>>

\* TypeIs comparing with == : the string "1" equals the label 1
TypeIs_loose(interaction, label) ==
  interaction.typeKind \in {"number", "string"} /\ interaction.type = label

\* the switch compares with ===: a type that is no number equals no case label
TypeIs(interaction, label) ==
  interaction.typeKind = "number" /\ interaction.type = label

\* switch (interaction.type) { ... }
Route(interaction, environment, world) ==
  IF TypeIs(interaction, PING)
  THEN [handlePing EXCEPT !.dispatched = {"handlePing"}]
  ELSE IF TypeIs(interaction, APPLICATION_COMMAND)
  THEN [handleSlashCommand(interaction, world) EXCEPT
          !.dispatched = {"handleSlashCommand"}]
  ELSE IF TypeIs(interaction, MESSAGE_COMPONENT)
  THEN [handleButtonClick(interaction, environment) EXCEPT
          !.dispatched = {"handleButtonClick"}]
  ELSE [NoWork EXCEPT !.response = TextResponse("Unknown interaction type", 400)]

\* const interaction = JSON.parse(body); switch (interaction.type) ...
\* JSON.parse throws a SyntaxError on a body that is no JSON text; the JSON
\* text null parses, and reading .type of null throws a TypeError.
Dispatch(body, environment, world) ==
  IF body.json = "invalid"
  THEN [NoWork EXCEPT !.response = Exception("SyntaxError")]
  ELSE IF body.value.isNull
  THEN [NoWork EXCEPT !.parsed = TRUE, !.response = Exception("TypeError")]
  ELSE [Route(body.value, environment, world) EXCEPT !.parsed = TRUE]

\* Gate with the await left out: a promise is never falsy, so a false verdict
\* does not stop the request
Gate_unawaited(verdict, onward) ==
  IF verdict = "throw"
  THEN [NoWork EXCEPT !.verify = "throw", !.response = Exception("CryptoError")]
  ELSE [onward EXCEPT !.verify = verdict]

\* if (!(await verifyDiscordSignature(...))) return 401; then parse and dispatch
Gate(verdict, onward) ==
  IF verdict = "throw"
  THEN [NoWork EXCEPT !.verify = "throw", !.response = Exception("CryptoError")]
  ELSE IF verdict = "false"
  THEN [NoWork EXCEPT !.verify = "false",
                      !.response = TextResponse("Invalid signature", 401)]
  ELSE [onward EXCEPT !.verify = "true"]

\* export default { async fetch(request, env, ctx) }
fetch(req, environment, world) ==
  IF req.method # "POST"
  THEN [NoWork EXCEPT !.response = TextResponse("Not found", 404)]
  ELSE Gate(verifyDiscordSignature(environment.DISCORD_PUBLIC_KEY,
                                   HeaderOrEmpty(req.signature),
                                   HeaderOrEmpty(req.timestamp),
                                   req.body, world.crypto),
            Dispatch(req.body, environment, world))

-----------------------------------------------------------------------------
(* Inputs: configurations, requests, and what the outside world answers *)

\* DISCORD_PUBLIC_KEY as configured: the platform's key, another well-formed
\* key, and malformed ones (empty, odd length, too short, a non-hex character)
PublicKeys ==
  { SignerKeyHex,
    Rep("f", 2 * Ed25519KeyBytes),
    <<>>,
    SliceTo(SignerKeyHex, 2 * Ed25519KeyBytes - 1),
    SliceTo(SignerKeyHex, 2 * Ed25519KeyBytes - 2),
    [SignerKeyHex EXCEPT ![1] = "z"] }

Envs == [DISCORD_PUBLIC_KEY : PublicKeys, DISCORD_APP_ID : {"app"}]

Absent == [present |-> FALSE, value |-> <<>>]
Present(v) == [present |-> TRUE, value |-> v]

\* X-Signature-Ed25519: absent, empty, genuine, a well-formed other signature,
\* and malformed ones: odd lengths, non-hex characters
Signatures ==
  { Absent,
    Present(<<>>),
    Present(GenuineSigHex),
    Present(Rep("f", 2 * Ed25519SigBytes)),
    Present(SliceTo(GenuineSigHex, 2 * Ed25519SigBytes - 1)),
    Present(GenuineSigHex \o <<"0">>),
    Present([GenuineSigHex EXCEPT ![1] = "z"]),
    Present([GenuineSigHex EXCEPT ![1] = "a", ![2] = "z"]) }

Timestamps == { Absent, Present(<<"1", "7">>) }

Str(s) == [kind |-> "string", str |-> s]
NumberValue == [kind |-> "number", str |-> <<>>]
NoValue == [kind |-> "absent", str |-> <<>>]

Option(name, value) == [name |-> name, value |-> value]

\* search terms: blank, plain, upper case, padded, without any match, in tags
\* only, in paths only
Queries ==
  { <<>>, <<" ", " ">>,
    <<"c", "a", "t">>, <<"C", "A", "T">>, <<" ", "c", "a", "t", " ">>,
    <<"z", "e", "b", "r", "a">>,
    <<"n", "i", "g", "h", "t">>,
    <<"o", "w", "l">>,
    <<"g", "i", "f">> }

OptionLists ==
  { <<>>,
    <<Option("search", NumberValue)>>,
    <<Option("search", NoValue)>>,
    <<Option("limit", Str(<<"o", "w", "l">>)), Option("search", Str(<<"c", "a", "t">>))>> }
  \cup { <<Option("search", Str(q))>> : q \in Queries }

CustomIds ==
  { Absent,
    Present(<<>>),
    Present(PostPrefix),
    Present(<<"o", "t", "h", "e", "r", ":", "x">>),
    Present(<<"P", "O", "S", "T", ":", "x">>),
    Present(PostPrefix \o <<"c", "a", "t", ".", "g", "i", "f">>),
    Present(PostPrefix \o <<"c", "a", "t", ".", "g", "i", "f">> \o Delimiter
              \o <<"f", "u", "n", "n", "y">>),
    Present(PostPrefix \o <<"a">> \o Delimiter \o <<"b">> \o Delimiter \o <<"c">>) }

Interaction(typeKind, type, hasData, hasOptions, options, customId) ==
  [isNull |-> FALSE, typeKind |-> typeKind, type |-> type, hasData |-> hasData,
   hasOptions |-> hasOptions, options |-> options, custom_id |-> customId,
   token |-> "token"]

NullValue ==
  [isNull |-> TRUE, typeKind |-> "missing", type |-> 0, hasData |-> FALSE,
   hasOptions |-> FALSE, options |-> <<>>, custom_id |-> Absent, token |-> "none"]

\* type tags: the three the platform defines, numbers it does not, the same
\* digits as strings, and none at all
TypeTags ==
  ({"number"} \X (0..4)) \cup ({"string"} \X (PING..MESSAGE_COMPONENT))
  \cup {<<"missing", 0>>}

Commands ==
  { Interaction("number", APPLICATION_COMMAND, TRUE, TRUE, o, Absent) : o \in OptionLists }
  \cup { Interaction("number", APPLICATION_COMMAND, FALSE, FALSE, <<>>, Absent),
         Interaction("number", APPLICATION_COMMAND, TRUE, FALSE, <<>>, Absent) }

Clicks ==
  { Interaction("number", MESSAGE_COMPONENT, TRUE, FALSE, <<>>, c) : c \in CustomIds }
  \cup { Interaction("number", MESSAGE_COMPONENT, FALSE, FALSE, <<>>, Absent) }

\* every type tag, with the payload of a command, of a click, and with none
Tagged ==
  { Interaction(t[1], t[2], TRUE, TRUE,
                <<Option("search", Str(<<"c", "a", "t">>))>>,
                Present(PostPrefix \o <<"c", "a", "t", ".", "g", "i", "f">>)) :
      t \in TypeTags }
  \cup { Interaction(t[1], t[2], FALSE, FALSE, <<>>, Absent) : t \in TypeTags }

Bodies ==
  { [json |-> "invalid", value |-> NullValue], [json |-> "ok", value |-> NullValue] }
  \cup { [json |-> "ok", value |-> i] : i \in Commands \cup Clicks \cup Tagged }

\* some bodies of each kind, for the requests that vary the headers
SampleBodies ==
  { b \in Bodies :
      \/ b.json = "invalid"
      \/ /\ ~b.value.isNull
         /\ b.value.hasData
         /\ b.value.hasOptions = (b.value.type # MESSAGE_COMPONENT)
         /\ b.value.typeKind = "number"
         /\ b.value.options \in {<<>>, <<Option("search", Str(<<"c", "a", "t">>))>>}
         /\ b.value.custom_id.present = (b.value.type # APPLICATION_COMMAND) }

NoRequest ==
  [method |-> "none", signature |-> Absent, timestamp |-> Absent,
   body |-> [json |-> "invalid", value |-> NullValue]]

\* requests of the platform (every body, genuine headers), requests with every
\* combination of headers, and requests with another method
Requests ==
  [method : {"POST"}, signature : {Present(GenuineSigHex)},
   timestamp : {Present(<<"1", "7">>)}, body : Bodies]
  \cup [method : {"POST"}, signature : Signatures, timestamp : Timestamps,
        body : SampleBodies]
  \cup [method : {"GET", "PUT"}, signature : {Absent, Present(GenuineSigHex)},
        timestamp : {Present(<<"1", "7">>)}, body : SampleBodies]

\* catalog items g0.gif, g1.gif, ... all tagged "cat"
Numbered(n) ==
  [i \in 1..n |-> Gif(<<"g">> \o Dec(i - 1) \o <<".", "g", "i", "f">>, <<"c", "a", "t">>)]

\* a term in the path only, in the tags only (and in upper case), in neither;
\* a path holding the delimiter; a path longer than a custom_id
Mixed ==
  << Gif(<<"C", "a", "t", ".", "g", "i", "f">>, <<>>),
     Gif(<<"d", "o", "g", ".", "g", "i", "f">>, <<"f", "u", "n", "n", "y", " ", "C", "A", "T">>),
     Gif(<<"o", "w", "l", ".", "g", "i", "f">>, <<"n", "i", "g", "h", "t">>),
     Gif(<<"a", "|", "|", "b", ".", "g", "i", "f">>, <<"x">>),
     Gif(Rep("w", CustomIdLimit + 1) \o <<".", "g", "i", "f">>, <<"w", "i", "d", "e">>) >>

Catalogs ==
  { <<>>, Numbered(1), Mixed }
  \cup { Numbered(n) : n \in (MAX_GIFS_SHOWN - 1)..MaxCatalog }

\* what the catalog service does with GET /api
CatalogReplies ==
  { [kind |-> "ok", status |-> 200, gifs |-> c] : c \in Catalogs }
  \cup { [kind |-> "status", status |-> st, gifs |-> <<>>] : st \in {404, 500} }
  \cup { [kind |-> "transport", status |-> 0, gifs |-> <<>>],
         [kind |-> "badjson", status |-> 200, gifs |-> <<>>] }

\* the message the platform signed: the one received, or the same body under
\* another timestamp (a replayed or forged request)
SignedMessages(req) ==
  { Message(HeaderOrEmpty(req.timestamp), req.body), Message(<<"0">>, req.body) }

\* only a command that passed the gate asks the catalog service and the
\* random source anything
IsCommand(req) ==
  /\ req.method = "POST"
  /\ req.body.json = "ok"
  /\ req.body.value.typeKind = "number"
  /\ req.body.value.type = APPLICATION_COMMAND

Worlds(req) ==
  [crypto : [signed : SignedMessages(req), strict : BOOLEAN],
   catalog : IF IsCommand(req) THEN CatalogReplies
             ELSE {[kind |-> "transport", status |-> 0, gifs |-> <<>>]},
   seed : IF IsCommand(req) THEN 0..(RandDenom - 1) ELSE {0}]

-----------------------------------------------------------------------------
(* The state machine *)

TraceFields == DOMAIN NoWork \ {"response", "followup"}

Idle == response.outcome = "none"

Init ==
  /\ env \in Envs
  /\ request = NoRequest
  /\ trace = [f \in TraceFields |-> NoWork[f]]
  /\ response = NoResponse
  /\ followup = NoFollowup

\* One request arrives and the handler runs to its return (or to the
\* exception that leaves it).
Fetch ==
  /\ Idle
  /\ \E req \in Requests :
       \E world \in Worlds(req) :
         \E out \in {fetch(req, env, world)} :
             /\ request' = req
             /\ trace' = [f \in TraceFields |-> out[f]]
             /\ response' = out.response
             /\ followup' = out.followup
  /\ UNCHANGED env

\* The follow-up call handed to waitUntil settles, after the response.
FollowupDelivered ==
  /\ followup.state = "pending"
  /\ followup' = [followup EXCEPT !.state = "delivered"]
  /\ UNCHANGED <<env, request, trace, response>>

FollowupFailed ==
  /\ followup.state = "pending"
  /\ followup' = [followup EXCEPT !.state = "failed"]
  /\ UNCHANGED <<env, request, trace, response>>

\* The request is over (response returned, nothing left in waitUntil); the
\* worker keeps nothing of it.
Finish ==
  /\ ~Idle
  /\ followup.state # "pending"
  /\ request' = NoRequest
  /\ trace' = [f \in TraceFields |-> NoWork[f]]
  /\ response' = NoResponse
  /\ followup' = NoFollowup
  /\ UNCHANGED env

Next == Fetch \/ FollowupDelivered \/ FollowupFailed \/ Finish

Spec == Init /\ [][Next]_vars

-----------------------------------------------------------------------------
(* Vocabulary of the claims *)

Interaction_ == request.body.value

Returned == response.outcome = "response"

\* a verified request whose body parsed to an interaction object
VerifiedInteraction ==
  /\ trace.verify = "true"
  /\ trace.parsed
  /\ ~Interaction_.isNull

TypeTag(n) == Interaction_.typeKind = "number" /\ Interaction_.type = n

NoOutboundCall == trace.catalogFetches = 0 /\ followup.state = "none"

IsJsonReply(type) ==
  /\ Returned
  /\ response.status = 200
  /\ response.contentType = "application/json"
  /\ response.body.type = type

\* an immediate message that carries buttons
IsPickerReply ==
  /\ IsJsonReply(4)
  /\ "components" \in DOMAIN response.body.data

Picker == response.body.data

\* the buttons of the picker, row after row
RECURSIVE Flatten(_)
Flatten(rows) ==
  IF rows = <<>> THEN <<>> ELSE Head(rows).components \o Flatten(Tail(rows))

Buttons == Flatten(Picker.components)

\* t occurs in s, letter case ignored
ContainsIgnoringCase(s, t) ==
  \E i \in 1..(Len(s) - Len(t) + 1) :
    \A k \in 1..Len(t) : LowerChar(s[i + k - 1]) = LowerChar(t[k])

ItemsOf(items) == {items[i] : i \in 1..Len(items)}

-----------------------------------------------------------------------------
(* C1 *)

\* C1: whenever signature verification returns false for a POST request
\* (absent headers, read as empty strings, included), the response is HTTP 401
\* and nothing else was done: body not parsed, no handler dispatched, no
\* catalog fetch, no follow-up scheduled.
C1_InvalidSignatureStops ==
  (request.method = "POST" /\ trace.verify = "false") =>
    /\ Returned
    /\ response.status = 401
    /\ ~trace.parsed
    /\ trace.dispatched = {}
    /\ NoOutboundCall

\* a command arrives without its signature header, verification says false
C1_Witness ==
  /\ request.method = "POST"
  /\ ~request.signature.present
  /\ request.body.json = "ok"
  /\ request.body.value.type = APPLICATION_COMMAND
  /\ trace.verify = "false"
  /\ response.status = 401

-----------------------------------------------------------------------------
(* C2 *)

\* hex text that is not the encoding of n bytes: empty, odd length, a non-hex
\* character, or another byte length
MalformedHex(hex, n) ==
  \/ Len(hex) % 2 = 1
  \/ \E i \in 1..Len(hex) : ~IsHexDigit(hex[i])
  \/ Len(hex) # 2 * n

\* C2: every POST request whose public key or signature is malformed hex is
\* answered with HTTP 401, and no exception leaves the handler.
C2_MalformedHexIs401 ==
  ( /\ request.method = "POST"
    /\ \/ MalformedHex(env.DISCORD_PUBLIC_KEY, 32)
       \/ MalformedHex(HeaderOrEmpty(request.signature), 64) ) =>
    /\ Returned
    /\ response.status = 401

-----------------------------------------------------------------------------
(* C3 *)

\* C3: for every verified, parsed interaction exactly one outcome is produced
\* by its type tag: 1 gives the pong reply whatever else the payload holds and
\* no outbound call; 2 goes to the command handler only; 3 goes to the button
\* handler only; any other tag, or none, gives HTTP 400 with no handler, no
\* catalog fetch and no follow-up.
C3_DispatchTotalExclusive ==
  VerifiedInteraction =>
    IF TypeTag(1)
    THEN /\ trace.dispatched = {"handlePing"}
         /\ IsJsonReply(1)
         /\ NoOutboundCall
    ELSE IF TypeTag(2)
    THEN /\ trace.dispatched = {"handleSlashCommand"}
         /\ followup.state = "none"
    ELSE IF TypeTag(3)
    THEN /\ trace.dispatched = {"handleButtonClick"}
         /\ trace.catalogFetches = 0
         /\ IsJsonReply(7)
    ELSE /\ trace.dispatched = {}
         /\ Returned
         /\ response.status = 400
         /\ NoOutboundCall

\* a verified interaction whose type is the string "1", with a command's
\* options and a button's identifier in it, is refused with 400
C3_Witness ==
  /\ VerifiedInteraction
  /\ Interaction_.typeKind = "string"
  /\ Interaction_.type = 1
  /\ Interaction_.hasOptions
  /\ response.status = 400

-----------------------------------------------------------------------------
(* C4 *)

\* the command handler ran without a search term
BlankCommand ==
  /\ VerifiedInteraction
  /\ TypeTag(2)
  /\ trace.catalogFetches = 1
  /\ trace.query = <<>>

\* C4: a command without a search term, answered by the catalog service with
\* an empty list, gets a response; no exception leaves the handler.
C4_EmptyCatalogHandled ==
  (BlankCommand /\ trace.catalogReply.kind = "ok" /\ trace.catalogReply.gifs = <<>>) =>
    Returned

-----------------------------------------------------------------------------
(* C5 *)

\* the number of catalog items that matched the search term
MatchCount == Len(trace.matches)

\* C5: a picker reply for M matches shows exactly ten items under a header that
\* signals truncation when M > 10, and shows all M items under the header
\* "Found M GIF" (M = 1) or "Found M GIFs" (M > 1) when 1 <= M <= 10.
C5_HeaderStatesCount ==
  IsPickerReply =>
    IF MatchCount > 10
    THEN /\ Len(Picker.embeds) = 10
         /\ Picker.content.template # "Found ${n} ${noun} for **${query}**"
    ELSE /\ Len(Picker.embeds) = MatchCount
         /\ Picker.content.template = "Found ${n} ${noun} for **${query}**"
         /\ Picker.content.n = MatchCount
         /\ Picker.content.noun = (IF MatchCount = 1 THEN "GIF" ELSE "GIFs")

-----------------------------------------------------------------------------
(* C6 *)

\* C6: the identifier buildGifPicker puts on an item's button, decoded as
\* handleButtonClick decodes it, gives back the item's path and tags.
C6_IdentifierRoundTrip ==
  IsPickerReply =>
    \A i \in 1..Len(trace.shown) :
      /\ StartsWith(Buttons[i].custom_id, PostPrefix)
      /\ DecodeCustomId(Buttons[i].custom_id) = Gif(trace.shown[i].url, trace.shown[i].tags)

-----------------------------------------------------------------------------
(* C7 *)

\* a verified button click whose identifier starts with "post:"
PostClick ==
  /\ VerifiedInteraction
  /\ TypeTag(3)
  /\ StartsWith(CustomIdOf(Interaction_), PostPrefix)

\* C7: a button click with the expected prefix is answered with the HTTP 200
\* message-edit confirmation, with the follow-up scheduled and not awaited:
\* the response is the same whether the follow-up is pending, delivered or
\* failed.
C7_ConfirmationIndependentOfFollowup ==
  PostClick =>
    /\ IsJsonReply(7)
    /\ response.body.data.content.template = "Posted **${gifFilename}**"
    /\ response.body.data.embeds = <<>>
    /\ response.body.data.components = <<>>
    /\ followup.state \in {"pending", "delivered", "failed"}

\* the confirmation has been returned and the follow-up has failed
C7_Witness ==
  /\ PostClick
  /\ IsJsonReply(7)
  /\ followup.state = "failed"

-----------------------------------------------------------------------------
(* C8 *)

\* C8: when the catalog fetch of a command ends in a non-success status or a
\* transport failure, there was exactly one fetch, the response is an HTTP 200
\* immediate message carrying the ephemeral error text, no exception leaves
\* the handler and no item was selected.
C8_CatalogFailureIsEphemeralError ==
  (VerifiedInteraction /\ TypeTag(2)
     /\ trace.catalogReply.kind \in {"status", "transport"}) =>
    /\ trace.catalogFetches = 1
    /\ IsJsonReply(4)
    /\ response.body.data.flags = 64
    /\ response.body.data.content
         = "Could not reach gif.land right now. Try again in a moment."
    /\ "embeds" \notin DOMAIN response.body.data
    /\ trace.matches = <<>>
    /\ trace.shown = <<>>
    /\ trace.randomCalls = 0

\* the catalog service answered a search with status 500
C8_Witness ==
  /\ VerifiedInteraction
  /\ TypeTag(2)
  /\ trace.catalogReply.kind = "status"
  /\ trace.catalogReply.status = 500
  /\ trace.query # <<>>
  /\ IsJsonReply(4)

-----------------------------------------------------------------------------
(* C9 *)

\* a verified command with a non-blank search term that got the catalog
SearchCommand ==
  /\ VerifiedInteraction
  /\ TypeTag(2)
  /\ HasSearchOption(OptionsOf(Interaction_))
  /\ SearchOption(OptionsOf(Interaction_)).value.kind = "string"
  /\ Trim(SearchOption(OptionsOf(Interaction_)).value.str) # <<>>
  /\ trace.catalogReply.kind = "ok"

\* the search term as the command carries it
Term == SearchOption(OptionsOf(Interaction_)).value.str

\* the match set of the handler is the set of catalog items holding term in
\* their tags or path, and when it is empty the reply is the ephemeral
\* "No GIFs found" message
MatchSetIs(term) ==
  LET expected == {g \in ItemsOf(trace.catalogReply.gifs) :
                     ContainsIgnoringCase(g.tags, term) \/ ContainsIgnoringCase(g.url, term)}
  IN  /\ ItemsOf(trace.matches) = expected
      /\ expected = {} =>
           /\ IsJsonReply(4)
           /\ response.body.data.flags = 64
           /\ response.body.data.content.template
                = "No GIFs found for \"${query}\". Try a different search."

\* C9 as stated: for every non-blank search term and every catalog the match
\* set is the set of items whose tags or path contain the term, letter case
\* ignored; no such item: empty match set and the "No GIFs found" reply.
C9_MatchSetOfTerm == SearchCommand => MatchSetIs(Term)

\* C9 amended: the same, for the term with its leading and trailing white
\* space removed.
C9_MatchSetOfTrimmedTerm == SearchCommand => MatchSetIs(Trim(Term))

\* a padded term matched an item by its tags only, in another letter case
C9_Witness ==
  /\ SearchCommand
  /\ Term # Trim(Term)
  /\ \E g \in ItemsOf(trace.matches) :
       /\ ~ContainsIgnoringCase(g.url, Trim(Term))
       /\ ~Includes(g.tags, Trim(Term))
       /\ ContainsIgnoringCase(g.tags, Trim(Term))

-----------------------------------------------------------------------------
(* C10 *)

\* C10: every picker reply is within the platform's limits: one embed and one
\* button per shown item, at most ten items, rows of one or two buttons, at
\* most five rows, identifiers of at most 100 and labels of at most 80
\* characters, and the ephemeral flag.
C10_PickerWithinLimits ==
  IsPickerReply =>
    /\ Len(Picker.embeds) = Len(trace.shown)
    /\ Len(Buttons) = Len(trace.shown)
    /\ Len(trace.shown) <= 10
    /\ Len(Picker.components) <= 5
    /\ \A r \in 1..Len(Picker.components) :
         Len(Picker.components[r].components) \in 1..2
    /\ \A i \in 1..Len(Buttons) :
         /\ Len(Buttons[i].custom_id) <= 100
         /\ Len(Buttons[i].label) <= 80
    /\ Picker.flags = 64

\* more than ten matches, ten shown in five rows
C10_Witness ==
  /\ IsPickerReply
  /\ MatchCount > 10
  /\ Len(Buttons) = 10
  /\ Len(Picker.components) = 5

\* an identifier and a label cut to the limits
C10_WitnessCut ==
  /\ IsPickerReply
  /\ \E i \in 1..Len(Buttons) :
       /\ Len(Buttons[i].custom_id) = 100
       /\ Len(Buttons[i].label) = 80
       /\ Len(trace.shown[i].url) > 100

====
